---------------------------- MODULE Spec2Model ----------------------------
(***************************************************************************)
(* A model of the camera-driven exercise session of gym-zen-ai: the        *)
(* MediaPipe based ExerciseSession component (src/unnamed/part_001) and    *)
(* the place that mounts it (src/src/components/dashboard/Exercise.tsx).   *)
(*                                                                         *)
(* Modelling conventions                                                   *)
(*  - The state updates of one handler are applied in one step.           *)
(*  - onPoseResults, detectPose, incrementReps and saveWorkoutHistory run  *)
(*    as the closures of the render in which handleStartExercise ran: they *)
(*    read isDetecting, currentReps and targetReps as that render had them *)
(*    (bound). This is Spec. SpecLive lets them read the latest values,    *)
(*    so that the rep rules and the completion step can be examined.       *)
(*  - Strings the code parses or searches (the target input, the exercise  *)
(*    name) are sequences of one-character strings.                        *)
(*  - Lengths are pixels, angles are thousandths of a degree, visibility   *)
(*    is in hundredths; arithmetic is exact (no floating-point rounding).  *)
(***************************************************************************)
EXTENDS Integers, Sequences, FiniteSets, TLC

(***************************************************************************)
(* Bounds of the model                                                     *)
(***************************************************************************)
\* manual and automatic reps stop being generated at this count
MaxReps == 4
\* number of times an ExerciseSession is mounted in one behaviour
MaxSessions == 2
\* getAngle is examined on the points of a grid of this many cells a side (the
\* ArcTan table reaches six cells)
MaxGrid == 5

(***************************************************************************)
(* Strings                                                                 *)
(***************************************************************************)
UpperToLower ==
  [J |-> "j", K |-> "k", L |-> "l", P |-> "p", Q |-> "q", S |-> "s",
   U |-> "u", M |-> "m", A |-> "a", T |-> "t", Y |-> "y"]

\* toLowerCase leaving the name as it is written
toLowerCaseNone(s) == s

\* String.prototype.toLowerCase
toLowerCase(s) ==
  [i \in 1..Len(s) |-> IF s[i] \in DOMAIN UpperToLower THEN UpperToLower[s[i]] ELSE s[i]]

\* String.prototype.includes
includes(s, sub) ==
  \E i \in 1..(Len(s) - Len(sub) + 1) : SubSeq(s, i, i + Len(sub) - 1) = sub

IsDigit(c) == c \in {"0", "1", "2", "3", "4", "5", "6", "7", "8", "9"}
DigitVal(c) ==
  CASE c = "0" -> 0 [] c = "1" -> 1 [] c = "2" -> 2 [] c = "3" -> 3 [] c = "4" -> 4
    [] c = "5" -> 5 [] c = "6" -> 6 [] c = "7" -> 7 [] c = "8" -> 8 [] c = "9" -> 9

\* the value of the longest prefix of decimal digits of s, read after acc
RECURSIVE DigitsValue(_, _)
DigitsValue(s, acc) ==
  IF s = <<>> \/ ~IsDigit(Head(s)) THEN acc
  ELSE DigitsValue(Tail(s), 10 * acc + DigitVal(Head(s)))

NaN == [nan |-> TRUE, val |-> 0]
Num(n) == [nan |-> FALSE, val |-> n]

\* parseInt(string): an optional sign, then the leading decimal digits; NaN
\* when no digit follows the sign
parseInt(s) ==
  LET neg  == s # <<>> /\ Head(s) = "-"
      body == IF s # <<>> /\ Head(s) \in {"-", "+"} THEN Tail(s) ELSE s
  IN  IF body = <<>> \/ ~IsDigit(Head(body)) THEN NaN
      ELSE Num(IF neg THEN 0 - DigitsValue(body, 0) ELSE DigitsValue(body, 0))

\* JavaScript comparisons with a number that may be NaN: false when it is
LeqJS(a, n) == ~a.nan /\ a.val <= n
GeqJS(n, a) == ~a.nan /\ n >= a.val

\* values the numeric input of the "How many reps?" field can hold
TargetInputs ==
  { <<>>, <<"0">>, <<"-", "1">>, <<"1">>, <<"3">>, <<"-", ".", "5">> }


(***************************************************************************)
(* The exercise catalog (read-only collaborator)                           *)
(***************************************************************************)
Catalog ==
  { [name |-> <<"S","q","u","a","t","s">>, category |-> "Legs", difficulty |-> "beginner"],
    [name |-> <<"P","u","s","h","-","u","p","s">>, category |-> "Chest", difficulty |-> "beginner"],
    [name |-> <<"P","l","a","n","k">>, category |-> "Core", difficulty |-> "beginner"],
    [name |-> <<"P","U","L","L"," ","U","P","S">>, category |-> "Back", difficulty |-> "advanced"],
    [name |-> <<"L","u","n","g","e","s">>, category |-> "Legs", difficulty |-> "beginner"],
    [name |-> <<"J","u","m","p","i","n","g"," ","J","a","c","k","s">>, category |-> "Cardio", difficulty |-> "beginner"],
    [name |-> <<"Y","o","g","a">>, category |-> "Mobility", difficulty |-> "beginner"] }

(***************************************************************************)
(* Geometry                                                                *)
(***************************************************************************)
Abs(n) == IF n < 0 THEN 0 - n ELSE n

GCD[a \in Nat, b \in Nat] == IF b = 0 THEN a ELSE GCD[b, a % b]

\* arctan(a / b) for 0 <= a <= b, a and b coprime, in thousandths of a degree
ArcTan ==
  <<0, 1>> :> 0 @@ <<1, 1>> :> 45000 @@ <<1, 2>> :> 26565 @@ <<1, 3>> :> 18435 @@
  <<2, 3>> :> 33690 @@ <<1, 4>> :> 14036 @@ <<3, 4>> :> 36870 @@ <<1, 5>> :> 11310 @@
  <<2, 5>> :> 21801 @@ <<3, 5>> :> 30964 @@ <<4, 5>> :> 38660 @@ <<1, 6>> :> 9462 @@
  <<5, 6>> :> 39806

\* Math.atan2(dy, dx) * 180 / Math.PI, in thousandths of a degree, in (-180, 180]
Octant(ay, ax, g) ==
  IF ay <= ax THEN ArcTan[<<ay \div g, ax \div g>>]
  ELSE 90000 - ArcTan[<<ax \div g, ay \div g>>]
Quadrant(dy, dx, q) ==
  LET u == IF dx >= 0 THEN q ELSE 180000 - q
  IN  IF dy >= 0 THEN u ELSE 0 - u
atan2(dy, dx) ==
  IF dx = 0 /\ dy = 0 THEN 0
  ELSE Quadrant(dy, dx, Octant(Abs(dy), Abs(dx), GCD[Abs(dx), Abs(dy)]))

Undefined == [defined |-> FALSE]
Deg(n) == n * 1000

\* Fold left out: the absolute difference of the two directions as it is
FoldNone(angle) == angle

\* if (angle > 180.0) angle = 360 - angle
Fold(angle) == IF angle > Deg(180) THEN Deg(360) - angle ELSE angle

\* getAngle(pointA, pointB, pointC): the angle at B, 0 when a point is absent
getAngle(pointA, pointB, pointC) ==
  IF ~pointA.defined \/ ~pointB.defined \/ ~pointC.defined THEN 0
  ELSE Fold(Abs(atan2(pointC.y - pointB.y, pointC.x - pointB.x)
                - atan2(pointA.y - pointB.y, pointA.x - pointB.x)))

(***************************************************************************)
(* Frames: the results objects MediaPipe hands to onPoseResults            *)
(***************************************************************************)
VideoWidth == 640
VideoHeight == 480
\* a landmark is usable when its visibility exceeds 0.4
VisMin == 40

\* normalised landmark coordinates are given in sixteenths of the frame width
\* and twelfths of its height
NX(k) == [num |-> k, den |-> 16]
NY(k) == [num |-> k, den |-> 12]
Lm(gx, gy, v) == [x |-> NX(gx), y |-> NY(gy), visibility |-> v]

Hips == {6, 7, 8, 9}
Arms == {"down", "up", "bent", "right"}
Legs == {"together", "spread", "bent"}
\* the body line of a plank seen from the side
Lines == {"straight", "sagging", "piked"}
Visibilities == {"all", "low", "missing", "none"}
Weak == {"left_knee", "left_elbow", "left_ankle"}

\* a body in the plank position, on the forearms, feet to the right
LyingBody(line) ==
  [nose           |-> <<3, 8>>,
   left_shoulder  |-> <<4, 8>>,
   right_shoulder |-> <<4, 8>>,
   left_elbow     |-> <<4, 10>>,
   right_elbow    |-> <<4, 10>>,
   left_wrist     |-> <<6, 10>>,
   right_wrist    |-> <<6, 10>>,
   left_hip       |-> <<8, CASE line = "sagging" -> 9 [] line = "piked" -> 7 [] OTHER -> 8>>,
   right_hip      |-> <<8, CASE line = "sagging" -> 9 [] line = "piked" -> 7 [] OTHER -> 8>>,
   left_knee      |-> <<10, 8>>,
   right_knee     |-> <<10, 8>>,
   left_ankle     |-> <<12, 8>>,
   right_ankle    |-> <<12, 8>>]

\* a standing body, facing the camera
StandingBody(hy, arm, leg) ==
  [nose           |-> <<8, 2>>,
   left_shoulder  |-> <<8, 4>>,
   right_shoulder |-> <<7, 4>>,
   left_elbow     |-> IF arm = "up" THEN <<8, 2>> ELSE <<8, 6>>,
   right_elbow    |-> <<7, 6>>,
   left_wrist     |-> CASE arm = "down"  -> <<8, 8>>
                        [] arm = "up"    -> <<8, 0>>
                        [] arm = "bent"  -> <<9, 4>>
                        [] arm = "right" -> <<10, 6>>,
   right_wrist    |-> <<7, 8>>,
   left_hip       |-> <<8, hy>>,
   right_hip      |-> <<7, hy>>,
   left_knee      |-> <<8, 10>>,
   right_knee     |-> IF leg = "spread" THEN <<6, 10>> ELSE <<7, 10>>,
   left_ankle     |-> CASE leg = "together" -> <<8, 12>>
                        [] leg = "spread"   -> <<10, 12>>
                        [] leg = "bent"     -> <<6, 9>>,
   right_ankle    |-> IF leg = "spread" THEN <<6, 12>> ELSE <<7, 12>>]

Body(hy, arm, leg) == IF arm = "lying" THEN LyingBody(leg) ELSE StandingBody(hy, arm, leg)

PoseLandmarks(hy, arm, leg, vis) ==
  LET b == Body(hy, arm, leg)
      names == IF vis = "missing" THEN DOMAIN b \ Weak ELSE DOMAIN b
  IN  [n \in names |->
         Lm(b[n][1], b[n][2],
            IF vis = "none" \/ (vis = "low" /\ n \in Weak) THEN VisMin ELSE 90)]

BodyParams ==
  {<<hy, "down", "together">> : hy \in Hips}
    \cup {<<6, a, "together">> : a \in Arms}
    \cup {<<6, "down", l>> : l \in Legs}
    \cup {<<6, "up", "spread">>}

\* a frame is named by its parameters: <<hasPose, hy, arm, leg, vis>>
WeakParams ==
  {<<9, "down", "together">>, <<6, "bent", "together">>, <<6, "down", "bent">>,
   <<6, "up", "spread">>, <<6, "down", "together">>}

FrameParams ==
  {<<FALSE, 6, "down", "together", "all">>}
    \cup {<<TRUE, p[1], p[2], p[3], "all">> : p \in BodyParams}
    \cup {<<TRUE, p[1], p[2], p[3], v>> : p \in WeakParams, v \in {"low", "missing"}}
    \cup {<<TRUE, 8, "lying", l, "all">> : l \in Lines}
    \cup {<<TRUE, 8, "lying", "sagging", "low">>, <<TRUE, 6, "down", "together", "none">>}

\* results.poseLandmarks of the frame f (read only when the frame has a pose)
LandmarksOf(f) == PoseLandmarks(f[2], f[3], f[4], f[5])
HasPose(f) == f[1]

\* the keypoints of onPoseResults: normalised coordinates scaled to pixels
ToKeypoints(landmarks) ==
  [n \in DOMAIN landmarks |->
     [defined    |-> TRUE,
      x          |-> (landmarks[n].x.num * VideoWidth) \div landmarks[n].x.den,
      y          |-> (landmarks[n].y.num * VideoHeight) \div landmarks[n].y.den,
      visibility |-> landmarks[n].visibility]]

\* keypoints.find(kp => kp.name === name)
Find(keypoints, name) ==
  IF name \in DOMAIN keypoints THEN keypoints[name] ELSE Undefined

\* Visible with the threshold itself accepted
VisibleAtThreshold(lm) == lm.defined /\ lm.visibility >= VisMin

\* lm && lm.visibility > 0.4
Visible(lm) == lm.defined /\ lm.visibility > VisMin


(***************************************************************************)
(* Rep counter                                                             *)
(***************************************************************************)
thresholds ==
  [squat  |-> [hipKneeDown |-> 80, hipKneeUp |-> 120],
   pushup |-> [elbowDown |-> Deg(90), elbowUp |-> Deg(160)],
   pullup |-> [elbowDown |-> Deg(70), elbowUp |-> Deg(150)],
   lunge  |-> [kneeDown |-> Deg(85), kneeUp |-> Deg(150)]]

\* Hysteresis without the test of the phase on the way up
HysteresisNoEdge(signal, down, up, lastState) ==
  IF signal < down /\ lastState = "up" THEN [phase |-> "down", rep |-> FALSE]
  ELSE IF signal > up THEN [phase |-> "up", rep |-> TRUE]
  ELSE [phase |-> lastState, rep |-> FALSE]

\* Hysteresis with the two thresholds taken for each other
HysteresisSwapped(signal, down, up, lastState) ==
  IF signal < up /\ lastState = "up" THEN [phase |-> "down", rep |-> FALSE]
  ELSE IF signal > down /\ lastState = "down" THEN [phase |-> "up", rep |-> TRUE]
  ELSE [phase |-> lastState, rep |-> FALSE]

\* the two-threshold rule every angle or distance signal goes through:
\* the new phase and whether incrementReps is called
Hysteresis(signal, down, up, lastState) ==
  IF signal < down /\ lastState = "up" THEN [phase |-> "down", rep |-> FALSE]
  ELSE IF signal > up /\ lastState = "down" THEN [phase |-> "up", rep |-> TRUE]
  ELSE [phase |-> lastState, rep |-> FALSE]

Unchanged(lastState) == [phase |-> lastState, rep |-> FALSE]

countRepsSquat(kp, lastState) ==
  LET leftHip  == Find(kp, "left_hip")
      leftKnee == Find(kp, "left_knee")
  IN  IF Visible(leftHip) /\ Visible(leftKnee)
      THEN Hysteresis(Abs(leftHip.y - leftKnee.y),
                      thresholds.squat.hipKneeDown, thresholds.squat.hipKneeUp, lastState)
      ELSE Unchanged(lastState)

countRepsPushup(kp, lastState) ==
  LET leftShoulder == Find(kp, "left_shoulder")
      leftElbow    == Find(kp, "left_elbow")
      leftWrist    == Find(kp, "left_wrist")
  IN  IF Visible(leftShoulder) /\ Visible(leftElbow) /\ Visible(leftWrist)
      THEN Hysteresis(getAngle(leftShoulder, leftElbow, leftWrist),
                      thresholds.pushup.elbowDown, thresholds.pushup.elbowUp, lastState)
      ELSE Unchanged(lastState)

countRepsPullup(kp, lastState) ==
  LET leftShoulder == Find(kp, "left_shoulder")
      leftElbow    == Find(kp, "left_elbow")
      leftWrist    == Find(kp, "left_wrist")
  IN  IF Visible(leftShoulder) /\ Visible(leftElbow) /\ Visible(leftWrist)
      THEN Hysteresis(getAngle(leftShoulder, leftElbow, leftWrist),
                      thresholds.pullup.elbowDown, thresholds.pullup.elbowUp, lastState)
      ELSE Unchanged(lastState)

countRepsLunge(kp, lastState) ==
  LET leftHip   == Find(kp, "left_hip")
      leftKnee  == Find(kp, "left_knee")
      leftAnkle == Find(kp, "left_ankle")
  IN  IF Visible(leftHip) /\ Visible(leftKnee) /\ Visible(leftAnkle)
      THEN Hysteresis(getAngle(leftHip, leftKnee, leftAnkle),
                      thresholds.lunge.kneeDown, thresholds.lunge.kneeUp, lastState)
      ELSE Unchanged(lastState)

\* the jumping-jack counter with a rep on arms raised OR legs spread
countRepsJackEither(kp, lastState) ==
  LET leftWrist    == Find(kp, "left_wrist")
      leftShoulder == Find(kp, "left_shoulder")
      leftAnkle    == Find(kp, "left_ankle")
      rightAnkle   == Find(kp, "right_ankle")
  IN  IF Visible(leftWrist) /\ Visible(leftShoulder) /\ Visible(leftAnkle) /\ Visible(rightAnkle)
      THEN LET armsUp     == leftWrist.y < leftShoulder.y - 50
               legsSpread == Abs(leftAnkle.x - rightAnkle.x) > 80
           IN  IF (armsUp \/ legsSpread) /\ lastState = "down" THEN [phase |-> "up", rep |-> TRUE]
               ELSE IF ~armsUp /\ ~legsSpread /\ lastState = "up" THEN [phase |-> "down", rep |-> FALSE]
               ELSE Unchanged(lastState)
      ELSE Unchanged(lastState)

countRepsJack(kp, lastState) ==
  LET leftWrist    == Find(kp, "left_wrist")
      leftShoulder == Find(kp, "left_shoulder")
      leftAnkle    == Find(kp, "left_ankle")
      rightAnkle   == Find(kp, "right_ankle")
  IN  IF Visible(leftWrist) /\ Visible(leftShoulder) /\ Visible(leftAnkle) /\ Visible(rightAnkle)
      THEN LET armsUp     == leftWrist.y < leftShoulder.y - 50
               legsSpread == Abs(leftAnkle.x - rightAnkle.x) > 80
           IN  IF armsUp /\ legsSpread /\ lastState = "down" THEN [phase |-> "up", rep |-> TRUE]
               ELSE IF ~armsUp /\ ~legsSpread /\ lastState = "up" THEN [phase |-> "down", rep |-> FALSE]
               ELSE Unchanged(lastState)
      ELSE Unchanged(lastState)

\* countReps with a last branch that counts every other exercise like a push-up
countRepsCountsAll(name, kp, lastState) == countRepsPushup(kp, lastState)

\* countReps(keypoints): the first branch whose keyword the lower-cased
\* exercise name contains decides; no keyword (plank included) counts nothing
countReps(name, kp, lastState) ==
  LET exerciseLower == toLowerCase(name)
  IN  IF includes(exerciseLower, <<"s","q","u","a","t">>) THEN countRepsSquat(kp, lastState)
      ELSE IF includes(exerciseLower, <<"p","u","s","h">>)
              \/ (includes(exerciseLower, <<"u","p">>) /\ includes(exerciseLower, <<"p","u","s","h">>))
           THEN countRepsPushup(kp, lastState)
      ELSE IF includes(exerciseLower, <<"p","u","l","l">>) THEN countRepsPullup(kp, lastState)
      ELSE IF includes(exerciseLower, <<"l","u","n","g","e">>) THEN countRepsLunge(kp, lastState)
      ELSE IF includes(exerciseLower, <<"j","a","c","k">>) \/ includes(exerciseLower, <<"j","u","m","p">>)
           THEN countRepsJack(kp, lastState)
      ELSE Unchanged(lastState)


(***************************************************************************)
(* Form evaluator                                                          *)
(***************************************************************************)
\* one check of checkForm: when cond holds it pushes joints onto incorrect
\* and overwrites feedback
Chk(cond, joints, text) == [fires |-> cond, joints |-> joints, feedback |-> text]

\* RunChecks with the first feedback kept and only its joints flagged
RECURSIVE RunChecksFirstWins(_, _)
RunChecksFirstWins(checks, acc) ==
  IF checks = <<>> THEN acc
  ELSE RunChecksFirstWins(Tail(checks),
                          IF Head(checks).fires /\ acc.feedback = ""
                          THEN [incorrect |-> Head(checks).joints,
                                feedback  |-> Head(checks).feedback]
                          ELSE acc)

RECURSIVE RunChecks(_, _)
RunChecks(checks, acc) ==
  IF checks = <<>> THEN acc
  ELSE RunChecks(Tail(checks),
                 IF Head(checks).fires
                 THEN [incorrect |-> acc.incorrect \o Head(checks).joints,
                       feedback  |-> Head(checks).feedback]
                 ELSE acc)

\* the squat's knee angle test: if (kneeAngle < 70) ... else if (kneeAngle > 110)
kneeTooDeep(kneeAngle) == kneeAngle < Deg(70)
kneeTooShallow(kneeAngle) == ~(kneeAngle < Deg(70)) /\ kneeAngle > Deg(110)

SquatChecks(kp) ==
  LET leftHip == Find(kp, "left_hip")        leftKnee == Find(kp, "left_knee")
      leftAnkle == Find(kp, "left_ankle")    leftShoulder == Find(kp, "left_shoulder")
      rightKnee == Find(kp, "right_knee")
      legOk == Visible(leftHip) /\ Visible(leftKnee) /\ Visible(leftAnkle)
      kneeAngle == getAngle(leftHip, leftKnee, leftAnkle)
      hipOk == Visible(leftShoulder) /\ Visible(leftHip) /\ Visible(leftKnee)
      hipAngle == getAngle(leftShoulder, leftHip, leftKnee)
      backOk == Visible(leftShoulder) /\ Visible(leftHip)
      kneesOk == Visible(leftKnee) /\ Visible(rightKnee)
  IN << Chk(legOk /\ kneeTooDeep(kneeAngle), <<"left_knee", "left_hip", "left_ankle">>,
            "Squat too deep - protect knees"),
        Chk(legOk /\ kneeTooShallow(kneeAngle), <<"left_knee", "left_hip">>,
            "Go deeper - aim for 90 deg knee angle"),
        Chk(legOk /\ leftKnee.x > leftAnkle.x + 30, <<"left_knee", "left_ankle">>,
            "Keep knees behind toes"),
        Chk(hipOk /\ hipAngle < Deg(70), <<"left_hip", "left_shoulder", "left_knee">>,
            "Hips too low - maintain hip angle"),
        Chk(backOk /\ Abs(leftShoulder.x - leftHip.x) > 60, <<"left_shoulder", "left_hip">>,
            "Keep back straight & chest up"),
        Chk(kneesOk /\ Abs(leftKnee.x - rightKnee.x) < 60, <<"left_knee", "right_knee">>,
            "Push knees outward - hip width") >>

PushupChecks(kp) ==
  LET leftHip == Find(kp, "left_hip")        leftAnkle == Find(kp, "left_ankle")
      leftShoulder == Find(kp, "left_shoulder")
      leftElbow == Find(kp, "left_elbow")    leftWrist == Find(kp, "left_wrist")
      bodyOk == Visible(leftShoulder) /\ Visible(leftHip) /\ Visible(leftAnkle)
      bodyAngle == getAngle(leftShoulder, leftHip, leftAnkle)
      armOk == Visible(leftShoulder) /\ Visible(leftElbow) /\ Visible(leftWrist)
      elbowAngle == getAngle(leftShoulder, leftElbow, leftWrist)
  IN << Chk(bodyOk /\ bodyAngle < Deg(160), <<"left_shoulder", "left_hip", "left_ankle">>,
            "Keep body straight - plank position"),
        Chk(bodyOk /\ (Abs(leftShoulder.y - leftHip.y) > 50 \/ Abs(leftHip.y - leftAnkle.y) > 50),
            <<"left_hip">>, "Don't let hips sag"),
        Chk(armOk /\ elbowAngle < Deg(70), <<"left_elbow", "left_wrist", "left_shoulder">>,
            "Go deeper - chest to ground"),
        Chk(armOk /\ ~(elbowAngle < Deg(70)) /\ elbowAngle > Deg(170), <<"left_elbow">>,
            "Lock out at top"),
        Chk(armOk /\ leftElbow.defined /\ leftShoulder.defined /\ leftElbow.visibility > VisMin
              /\ Abs(leftElbow.x - leftShoulder.x) > 80,
            <<"left_elbow", "left_shoulder">>, "Keep elbows tucked - 45 deg angle") >>

PullupChecks(kp) ==
  LET leftHip == Find(kp, "left_hip")        rightHip == Find(kp, "right_hip")
      leftKnee == Find(kp, "left_knee")      leftShoulder == Find(kp, "left_shoulder")
      leftElbow == Find(kp, "left_elbow")    leftWrist == Find(kp, "left_wrist")
      armOk == Visible(leftShoulder) /\ Visible(leftElbow) /\ Visible(leftWrist)
      elbowAngle == getAngle(leftShoulder, leftElbow, leftWrist)
      archOk == Visible(leftShoulder) /\ Visible(leftHip) /\ Visible(leftKnee)
      bodyArch == getAngle(leftShoulder, leftHip, leftKnee)
  IN << Chk(armOk /\ elbowAngle < Deg(40), <<"left_elbow", "left_shoulder", "left_wrist">>,
            "Perfect pull! Chin over bar"),
        Chk(armOk /\ ~(elbowAngle < Deg(40)) /\ elbowAngle > Deg(160),
            <<"left_elbow", "left_shoulder">>, "Pull higher - chin over bar"),
        Chk(armOk /\ ~(elbowAngle < Deg(40)) /\ ~(elbowAngle > Deg(160))
              /\ elbowAngle > Deg(100) /\ elbowAngle < Deg(140),
            <<"left_elbow">>, "Full range - pull all the way up"),
        Chk(Visible(leftShoulder) /\ Visible(leftElbow) /\ Abs(leftShoulder.y - leftElbow.y) < 30,
            <<"left_shoulder", "left_elbow">>, "Engage shoulders - don't hang"),
        Chk(Visible(leftHip) /\ Visible(rightHip) /\ Abs(leftHip.x - rightHip.x) > 100,
            <<"left_hip", "right_hip">>, "Stop swinging - strict form"),
        Chk(archOk /\ bodyArch < Deg(140), <<"left_hip", "left_knee">>,
            "Keep body straight - don't arch") >>

LungeChecks(kp) ==
  LET leftHip == Find(kp, "left_hip")        rightHip == Find(kp, "right_hip")
      leftKnee == Find(kp, "left_knee")      rightKnee == Find(kp, "right_knee")
      leftAnkle == Find(kp, "left_ankle")    rightAnkle == Find(kp, "right_ankle")
      leftShoulder == Find(kp, "left_shoulder")
      frontOk == Visible(leftHip) /\ Visible(leftKnee) /\ Visible(leftAnkle)
      frontKneeAngle == getAngle(leftHip, leftKnee, leftAnkle)
      backOk == Visible(rightHip) /\ Visible(rightKnee) /\ Visible(rightAnkle)
      backKneeAngle == getAngle(rightHip, rightKnee, rightAnkle)
      torsoOk == Visible(leftShoulder) /\ Visible(leftHip)
  IN << Chk(frontOk /\ frontKneeAngle < Deg(70), <<"left_knee", "left_hip", "left_ankle">>,
            "Don't go too deep - 90 deg knee angle"),
        Chk(frontOk /\ ~(frontKneeAngle < Deg(70)) /\ frontKneeAngle > Deg(110), <<"left_knee">>,
            "Lower down - aim for 90 deg angle"),
        Chk(frontOk /\ leftKnee.x > leftAnkle.x + 30, <<"left_knee", "left_ankle">>,
            "Keep front knee behind toes"),
        Chk(backOk /\ backKneeAngle > Deg(110), <<"right_knee", "right_hip">>,
            "Lower back knee closer to ground"),
        Chk(torsoOk /\ Abs(leftShoulder.x - leftHip.x) > 50, <<"left_shoulder", "left_hip">>,
            "Keep torso upright & vertical"),
        Chk(torsoOk /\ Abs(leftShoulder.y - leftHip.y) < 40, <<"left_shoulder", "left_hip">>,
            "Don't lean forward - stay upright"),
        Chk(Visible(leftHip) /\ Visible(rightHip) /\ Abs(leftHip.y - rightHip.y) > 30,
            <<"left_hip", "right_hip">>, "Keep hips level") >>

PlankChecks(kp) ==
  LET leftHip == Find(kp, "left_hip")        leftAnkle == Find(kp, "left_ankle")
      leftShoulder == Find(kp, "left_shoulder")
      leftElbow == Find(kp, "left_elbow")    leftWrist == Find(kp, "left_wrist")
      nose == Find(kp, "nose")
      bodyOk == Visible(leftShoulder) /\ Visible(leftHip) /\ Visible(leftAnkle)
      bodyAngle == getAngle(leftShoulder, leftHip, leftAnkle)
      armOk == Visible(leftShoulder) /\ Visible(leftElbow) /\ Visible(leftWrist)
      elbowAngle == getAngle(leftShoulder, leftElbow, leftWrist)
  IN << Chk(bodyOk /\ bodyAngle < Deg(165), <<"left_hip", "left_shoulder", "left_ankle">>,
            "Hips sagging - raise them up"),
        Chk(bodyOk /\ ~(bodyAngle < Deg(165)) /\ bodyAngle > Deg(195), <<"left_hip">>,
            "Hips too high - lower them down"),
        Chk(armOk /\ (elbowAngle < Deg(70) \/ elbowAngle > Deg(110)), <<"left_elbow", "left_wrist">>,
            "Keep forearms perpendicular"),
        Chk(Visible(leftShoulder) /\ Visible(leftElbow) /\ Abs(leftShoulder.x - leftElbow.x) > 50,
            <<"left_shoulder", "left_elbow">>, "Shoulders over elbows"),
        Chk(Visible(leftShoulder) /\ Visible(nose) /\ nose.y < leftShoulder.y - 50,
            <<"left_shoulder">>, "Look down - neutral neck") >>

JackChecks(kp) ==
  LET leftHip == Find(kp, "left_hip")        leftKnee == Find(kp, "left_knee")
      leftAnkle == Find(kp, "left_ankle")    rightAnkle == Find(kp, "right_ankle")
      leftShoulder == Find(kp, "left_shoulder")
      leftElbow == Find(kp, "left_elbow")    leftWrist == Find(kp, "left_wrist")
      armOk == Visible(leftShoulder) /\ Visible(leftElbow) /\ Visible(leftWrist)
      armAngle == getAngle(leftShoulder, leftElbow, leftWrist)
      legOk == Visible(leftHip) /\ Visible(leftKnee) /\ Visible(leftAnkle)
      legAngle == getAngle(leftHip, leftKnee, leftAnkle)
  IN << Chk(armOk /\ leftWrist.y < leftShoulder.y /\ armAngle < Deg(150),
            <<"left_elbow", "left_wrist">>, "Straighten arms overhead"),
        Chk(legOk /\ legAngle < Deg(160), <<"left_knee">>, "Keep legs straight during jump"),
        Chk(Visible(leftAnkle) /\ Visible(rightAnkle) /\ Abs(leftAnkle.y - rightAnkle.y) > 40,
            <<"left_ankle", "right_ankle">>, "Land with both feet together") >>

\* the checks of checkForm(keypoints) in evaluation order: the blocks of every
\* keyword the name contains
ChecksOf(name, kp) ==
  LET exerciseLower == toLowerCase(name)
      has(w) == includes(exerciseLower, w)
  IN    (IF has(<<"s","q","u","a","t">>) THEN SquatChecks(kp) ELSE <<>>)
        \o (IF has(<<"p","u","s","h">>) \/ (has(<<"u","p">>) /\ has(<<"p","u","s","h">>))
            THEN PushupChecks(kp) ELSE <<>>)
        \o (IF has(<<"p","u","l","l">>) THEN PullupChecks(kp) ELSE <<>>)
        \o (IF has(<<"l","u","n","g","e">>) THEN LungeChecks(kp) ELSE <<>>)
        \o (IF has(<<"p","l","a","n","k">>) THEN PlankChecks(kp) ELSE <<>>)
        \o (IF has(<<"j","a","c","k">>) \/ has(<<"j","u","m","p">>) THEN JackChecks(kp) ELSE <<>>)

\* checkForm(keypoints): incorrect and feedback start empty, the checks run,
\* and the result is what setIncorrectJoints and setFormFeedback get
checkForm(name, kp) ==
  RunChecks(ChecksOf(name, kp), [incorrect |-> <<>>, feedback |-> ""])


\* checkForm and countReps on every frame of the model, computed once
Names == {e.name : e \in Catalog}
Phases == {"up", "down"}
KeypointsOf == [f \in FrameParams |-> ToKeypoints(LandmarksOf(f))]
FormOf ==
  [n \in Names |-> [f \in FrameParams |-> checkForm(n, KeypointsOf[f])]]
CountOf ==
  [n \in Names |-> [f \in FrameParams |->
     [ph \in Phases |-> countReps(n, KeypointsOf[f], ph)]]]

(***************************************************************************)
(* The session: the state of Exercise and of the mounted ExerciseSession   *)
(***************************************************************************)
VARIABLES
  exercise,        \* selectedExercise of Exercise; NoExercise: no session is mounted
  step,            \* "reps" (collecting the target) | "exercise" (running) | "complete"
  targetReps,      \* the text of the target input
  currentReps,
  isDetecting,
  isModelLoading,
  formFeedback,
  incorrectJoints,
  initError,
  lastRepState,    \* lastRepStateRef.current: the rep phase
  startPc,         \* where setupCamera / initializePoseDetection is waiting
  stream,          \* the camera stream of getUserMedia: "none" | "live" | "stopped"
  videoSrc,        \* the <video> element holds the stream in srcObject
  pose,            \* poseRef.current: "null" | "open" | "closed"
  cameraUtil,      \* cameraUtilRef.current: "null" | "starting" | "started" | "stopped"
  raf,             \* a requestAnimationFrame(detectPose) callback is pending
  inFlight,        \* a pose.send is pending: "none" | "camera" | "manual"
  bound,           \* the render whose handlers handleStartExercise ran: the state
                   \* values the callbacks registered by that call chain read
  rebind,          \* TRUE: the callbacks read the latest render instead (SpecLive)
  history,         \* localStorage "workoutHistory"
  sessions,        \* number of sessions mounted so far
  last,            \* the last operation, with the values it found
  fed,             \* the squat frames delivered to the running session so far
  ended            \* the rep phase the latest closed session ended in

vars == <<exercise, step, targetReps, currentReps, isDetecting, isModelLoading,
          formFeedback, incorrectJoints, initError, lastRepState, startPc, stream,
          videoSrc, pose, cameraUtil, raf, inFlight, bound, rebind, history,
          sessions, last, fed, ended>>

NoExercise == [name |-> <<>>, category |-> "", difficulty |-> ""]
mounted == exercise # NoExercise

\* the <video> and <canvas> elements are rendered only in the exercise step
videoRef == mounted /\ step = "exercise"
canvasRef == mounted /\ step = "exercise"

\* what a callback registered at start reads for a state variable
SeenIsDetecting == IF rebind THEN isDetecting ELSE bound.isDetecting
SeenCurrentReps == IF rebind THEN currentReps ELSE bound.currentReps
SeenTargetReps  == IF rebind THEN targetReps ELSE bound.targetReps

EventSig(op, sig) ==
  [op |-> op, reps |-> currentReps, phase |-> lastRepState, step |-> step,
   saved |-> Len(history), sig |-> sig]
Event(op) == EventSig(op, "none")

\* the primary rep signal of a frame, as the rep rules of the exercise read it:
\* below the down threshold, above the up threshold, or in the closed band
\* between them; for jumping jacks how many of the two conditions hold
Band(signal, down, up) ==
  IF signal < down THEN "below" ELSE IF signal > up THEN "above" ELSE "band"

SignalKind(name) ==
  LET n == toLowerCase(name)
  IN  IF includes(n, <<"s","q","u","a","t">>) THEN "squat"
      ELSE IF includes(n, <<"p","u","s","h">>) THEN "pushup"
      ELSE IF includes(n, <<"p","u","l","l">>) THEN "pullup"
      ELSE IF includes(n, <<"l","u","n","g","e">>) THEN "lunge"
      ELSE IF includes(n, <<"j","a","c","k">>) \/ includes(n, <<"j","u","m","p">>) THEN "jack"
      ELSE "none"

SignalLimits ==
  [squat  |-> <<80, 120>>, pushup |-> <<Deg(90), Deg(160)>>,
   pullup |-> <<Deg(70), Deg(150)>>, lunge |-> <<Deg(85), Deg(150)>>]

\* three landmarks all visible, as every rule asks of the joints it reads
Seen(a, b, c) == Visible(a) /\ Visible(b) /\ Visible(c)

SignalJack(wrist, shoulder, ankleL, ankleR) ==
  LET armsUp     == wrist.y < shoulder.y - 50
      legsSpread == Abs(ankleL.x - ankleR.x) > 80
  IN  IF ~(Seen(wrist, shoulder, ankleL) /\ Visible(ankleR)) THEN "none"
      ELSE IF armsUp /\ legsSpread THEN "both"
      ELSE IF ~armsUp /\ ~legsSpread THEN "neither" ELSE "one"

SignalAngle(kind, a, b, c) ==
  IF Seen(a, b, c) THEN Band(getAngle(a, b, c), SignalLimits[kind][1], SignalLimits[kind][2])
  ELSE "none"

SignalClass(kind, kp) ==
  CASE kind = "squat" ->
         IF Visible(Find(kp, "left_hip")) /\ Visible(Find(kp, "left_knee"))
         THEN Band(Abs(Find(kp, "left_hip").y - Find(kp, "left_knee").y), 80, 120)
         ELSE "none"
    [] kind \in {"pushup", "pullup", "lunge"} ->
         SignalAngle(kind,
                     Find(kp, IF kind = "lunge" THEN "left_hip" ELSE "left_shoulder"),
                     Find(kp, IF kind = "lunge" THEN "left_knee" ELSE "left_elbow"),
                     Find(kp, IF kind = "lunge" THEN "left_ankle" ELSE "left_wrist"))
    [] kind = "jack" ->
         SignalJack(Find(kp, "left_wrist"), Find(kp, "left_shoulder"),
                    Find(kp, "left_ankle"), Find(kp, "right_ankle"))
    [] OTHER -> "none"

SignalOf ==
  [n \in Names |-> [f \in FrameParams |->
     IF HasPose(f) THEN SignalClass(SignalKind(n), KeypointsOf[f]) ELSE "none"]]

\* the full squat cycles (above 120, below 80, above 120 again) of the frames
\* delivered to a running squat session, all landmarks visible, no manual rep
NotFed == [clean |-> FALSE, sig |-> "high", cycles |-> 0]
StartFed == [clean |-> TRUE, sig |-> "high", cycles |-> 0]
Feed(c) ==
  IF ~fed.clean \/ ~mounted \/ step # "exercise" THEN fed
  ELSE IF c = "none" THEN NotFed
  ELSE [clean  |-> TRUE,
        sig    |-> IF c = "above" THEN "high" ELSE IF c = "below" THEN "low" ELSE fed.sig,
        cycles |-> IF c = "above" /\ fed.sig = "low" THEN fed.cycles + 1 ELSE fed.cycles]

component == <<step, targetReps, currentReps, isDetecting, isModelLoading,
               formFeedback, incorrectJoints, initError>>
resources == <<stream, videoSrc, pose, cameraUtil, raf, inFlight>>

InitCommon ==
  /\ exercise = NoExercise
  /\ step = "reps"
  /\ targetReps = <<>>
  /\ currentReps = 0
  /\ isDetecting = FALSE
  /\ isModelLoading = FALSE
  /\ formFeedback = ""
  /\ incorrectJoints = <<>>
  /\ initError = "null"
  /\ lastRepState = "up"
  /\ startPc = "idle"
  /\ stream = "none"
  /\ videoSrc = FALSE
  /\ pose = "null"
  /\ cameraUtil = "null"
  /\ raf = FALSE
  /\ inFlight = "none"
  /\ bound = [isDetecting |-> FALSE, currentReps |-> 0, targetReps |-> <<>>]
  /\ history = <<>>
  /\ sessions = 0
  /\ last = [op |-> "init", reps |-> 0, phase |-> "up", step |-> "reps", saved |-> 0,
             sig |-> "none"]
  /\ fed = NotFed
  /\ ended = "none"

Init == InitCommon /\ rebind = FALSE
InitLive == InitCommon /\ rebind = TRUE

\* a session instance that is reused, its ref with it
KeptRef(old) == old

\* useRef<"up" | "down">("up") of a newly mounted session; old is the value the
\* ref of the session before held
FreshRef(old) == "up"

\* Exercise: a click on an exercise card mounts a fresh ExerciseSession
Mount ==
  /\ ~mounted
  /\ sessions < MaxSessions
  /\ startPc \in {"idle", "done", "failed"} /\ inFlight = "none" /\ ~raf
  /\ \E e \in Catalog :
       /\ exercise' = e
       /\ fed' = IF SignalKind(e.name) = "squat" THEN StartFed ELSE NotFed
  /\ step' = "reps"
  /\ targetReps' = <<>>
  /\ currentReps' = 0
  /\ isDetecting' = FALSE
  /\ isModelLoading' = FALSE
  /\ formFeedback' = ""
  /\ incorrectJoints' = <<>>
  /\ initError' = "null"
  /\ lastRepState' = FreshRef(lastRepState)
  /\ startPc' = "idle"
  /\ stream' = "none" /\ videoSrc' = FALSE /\ pose' = "null" /\ cameraUtil' = "null"
  /\ raf' = FALSE /\ inFlight' = "none"
  /\ bound' = [isDetecting |-> FALSE, currentReps |-> 0, targetReps |-> <<>>]
  /\ sessions' = sessions + 1
  /\ last' = Event("mount")
  /\ UNCHANGED <<rebind, history, ended>>

\* onChange of the target input
SetTargetReps ==
  /\ mounted /\ step = "reps"
  /\ \E v \in TargetInputs : targetReps' = v
  /\ last' = Event("input")
  /\ UNCHANGED <<exercise, step, currentReps, isDetecting, isModelLoading, formFeedback,
                 incorrectJoints, initError, lastRepState, startPc, resources, bound,
                 rebind, history, sessions, fed, ended>>

\* !targetReps || parseInt(targetReps) <= 0
InvalidTarget(t) == t = <<>> \/ LeqJS(parseInt(t), 0)

\* handleStartExercise, up to the first await of setupCamera
HandleStartExercise ==
  /\ mounted /\ step = "reps"
  /\ IF InvalidTarget(targetReps)
     THEN /\ last' = Event("invalid")
          /\ UNCHANGED <<step, isModelLoading, initError, startPc, bound>>
     ELSE /\ step' = "exercise"
          /\ isModelLoading' = TRUE
          /\ initError' = "null"
          /\ startPc' = "getUserMedia"
          /\ bound' = [isDetecting |-> isDetecting, currentReps |-> currentReps,
                       targetReps |-> targetReps]
          /\ last' = Event("start")
  /\ UNCHANGED <<exercise, targetReps, currentReps, isDetecting, formFeedback,
                 incorrectJoints, lastRepState, resources, rebind, history, sessions, fed, ended>>


\* the state setters of an unmounted component do nothing
SetIfMounted(v, new, old) == v = IF mounted THEN new ELSE old

\* setupCamera after getUserMedia resolved: the stream goes to the <video>
\* element; without the element the catch block runs and the stream is dropped
GetUserMediaResolves ==
  /\ startPc = "getUserMedia"
  /\ stream' = "live"
  /\ IF videoRef
     THEN /\ videoSrc' = TRUE
          /\ startPc' = "loadedmetadata"
          /\ UNCHANGED <<isModelLoading, initError>>
     ELSE /\ videoSrc' = videoSrc
          /\ startPc' = "failed"
          /\ SetIfMounted(isModelLoading', FALSE, isModelLoading)
          /\ SetIfMounted(initError', "camera", initError)
  /\ last' = Event(IF videoRef THEN "stream" ELSE "cameraError")
  /\ UNCHANGED <<exercise, step, targetReps, currentReps, isDetecting, formFeedback,
                 incorrectJoints, lastRepState, pose, cameraUtil, raf, inFlight,
                 bound, rebind, history, sessions, fed, ended>>

\* setupCamera's catch block: the camera is denied or unavailable
GetUserMediaRejects ==
  /\ startPc = "getUserMedia"
  /\ startPc' = "failed"
  /\ SetIfMounted(isModelLoading', FALSE, isModelLoading)
  /\ SetIfMounted(initError', "camera", initError)
  /\ last' = Event("cameraError")
  /\ UNCHANGED <<exercise, step, targetReps, currentReps, isDetecting, formFeedback,
                 incorrectJoints, lastRepState, resources, bound, rebind, history, sessions, fed, ended>>

\* video.onloadedmetadata: play, size the canvas, enter initializePoseDetection
\* up to its first await
OnLoadedMetadata ==
  /\ startPc = "loadedmetadata"
  /\ startPc' = "import"
  /\ SetIfMounted(initError', "null", initError)
  /\ last' = Event("metadata")
  /\ UNCHANGED <<exercise, step, targetReps, currentReps, isDetecting, isModelLoading,
                 formFeedback, incorrectJoints, lastRepState, resources, bound, rebind,
                 history, sessions, fed, ended>>

\* initializePoseDetection after the imports resolved; Camera is the camera
\* helper, absent when its import failed
ImportResolves ==
  /\ startPc = "import"
  /\ \E Camera \in BOOLEAN :
       /\ pose' = "open"
       /\ SetIfMounted(isModelLoading', FALSE, isModelLoading)
       /\ SetIfMounted(isDetecting', TRUE, isDetecting)
       /\ IF Camera /\ videoRef
          THEN /\ cameraUtil' = "starting"
               /\ startPc' = "cameraStart"
               /\ inFlight' = inFlight
          ELSE /\ cameraUtil' = cameraUtil
               /\ startPc' = "detectPose"
       /\ last' = Event(IF Camera THEN "helper" ELSE "noHelper")
  /\ UNCHANGED <<exercise, step, targetReps, currentReps, formFeedback, incorrectJoints,
                 initError, lastRepState, stream, videoSrc, raf, inFlight, bound, rebind,
                 history, sessions, fed, ended>>

\* initializePoseDetection's catch block: the pose model cannot be loaded
ImportFails ==
  /\ startPc = "import"
  /\ startPc' = "failed"
  /\ SetIfMounted(isModelLoading', FALSE, isModelLoading)
  /\ SetIfMounted(initError', "model", initError)
  /\ last' = Event("modelError")
  /\ UNCHANGED <<exercise, step, targetReps, currentReps, isDetecting, formFeedback,
                 incorrectJoints, lastRepState, resources, bound, rebind, history, sessions, fed, ended>>

\* await cameraUtilRef.current.start() resolved
CameraStartResolves ==
  /\ startPc = "cameraStart"
  /\ startPc' = "done"
  /\ cameraUtil' = IF cameraUtil = "starting" THEN "started" ELSE cameraUtil
  /\ last' = Event("helperStarted")
  /\ UNCHANGED <<exercise, component, lastRepState, stream, videoSrc, pose, raf, inFlight,
                 bound, rebind, history, sessions, fed, ended>>

\* await cameraUtilRef.current.start() rejected: detectPose() as the fallback
CameraStartFails ==
  /\ startPc = "cameraStart"
  /\ startPc' = "detectPose"
  /\ cameraUtil' = IF cameraUtil = "starting" THEN "failed" ELSE cameraUtil
  /\ last' = Event("helperFailed")
  /\ UNCHANGED <<exercise, component, lastRepState, stream, videoSrc, pose, raf, inFlight,
                 bound, rebind, history, sessions, fed, ended>>


(***************************************************************************)
(* Frames                                                                  *)
(***************************************************************************)
\* the camera helper's onFrame: await poseRef.current.send(...)
CameraFrame ==
  /\ cameraUtil = "started" /\ pose = "open" /\ inFlight = "none"
  /\ inFlight' = "camera"
  /\ last' = Event("send")
  /\ UNCHANGED <<exercise, component, lastRepState, startPc, stream, videoSrc, pose,
                 cameraUtil, raf, bound, rebind, history, sessions, fed, ended>>

\* detectPoseSends without the guard on the <video> element and isDetecting
detectPoseSendsAlways == pose # "null"

\* detectPose's guard: it returns at once without the <video> element, without
\* a pose object or when it is not detecting
detectPoseSends == videoRef /\ pose # "null" /\ SeenIsDetecting

\* detectPose up to its await: called by initializePoseDetection as the
\* fallback (startPc = "detectPose") or by requestAnimationFrame
detectPose ==
  /\ raf \/ startPc = "detectPose"
  /\ raf' = FALSE
  /\ startPc' = IF startPc = "detectPose" THEN "done" ELSE startPc
  /\ inFlight' = IF detectPoseSends THEN "manual" ELSE inFlight
  /\ last' = Event("detectPose")
  /\ UNCHANGED <<exercise, component, lastRepState, stream, videoSrc, pose, cameraUtil,
                 bound, rebind, history, sessions, fed, ended>>

\* AfterSend without the finally block's requestAnimationFrame
AfterSendNoFinally ==
  /\ inFlight' = "none"
  /\ raf' = raf

\* after the awaited send: the helper's onFrame just returns, detectPose's
\* finally block schedules the next detectPose
AfterSend ==
  /\ inFlight' = "none"
  /\ raf' = (raf \/ inFlight = "manual")

\* pose.send rejected: the error is logged
SendFails ==
  /\ inFlight # "none"
  /\ AfterSend
  /\ last' = Event("sendError")
  /\ UNCHANGED <<exercise, component, lastRepState, startPc, stream, videoSrc, pose,
                 cameraUtil, bound, rebind, history, sessions, fed, ended>>

\* the value handleManualRep's updater returns
ManualRepsLost(prev) == prev
ManualRepsDown(prev) == prev - 1
ManualReps(prev) == prev + 1

\* the value incrementReps' updater returns
NewReps(prev) == prev + 1

\* TargetMet with a strict comparison
\* the completion test met one rep before the target
TargetMetEarly(newReps, target) ==
  LET t == parseInt(IF target = <<>> THEN <<"0">> ELSE target)
  IN  ~t.nan /\ newReps + 1 >= t.val

TargetMetStrict(newReps, target) ==
  LET t == parseInt(IF target = <<>> THEN <<"0">> ELSE target)
  IN  ~t.nan /\ newReps > t.val

\* newReps >= parseInt(targetReps || "0")
TargetMet(newReps, target) ==
  GeqJS(newReps, parseInt(IF target = <<>> THEN <<"0">> ELSE target))

\* the record saveWorkoutHistory appends (its date is left out)
workoutData ==
  [exerciseName |-> exercise.name,
   reps         |-> SeenCurrentReps,
   targetReps   |-> parseInt(IF SeenTargetReps = <<>> THEN <<"0">> ELSE SeenTargetReps),
   difficulty   |-> exercise.difficulty,
   category     |-> exercise.category]

\* a number after JSON.stringify and JSON.parse: NaN is written as null
JSONNull == [nan |-> TRUE, val |-> 0, json |-> "null"]
JSONNumber(n) == IF n.nan THEN JSONNull ELSE n

\* the list localStorage hands back after setItem(JSON.stringify(list)) and
\* JSON.parse(getItem()): strings and integers are kept as they are
JSONStored(list) ==
  [i \in 1..Len(list) |-> [list[i] EXCEPT !.targetReps = JSONNumber(@)]]

\* saveWorkoutHistory with the stored list replaced by the new summary alone
saveWorkoutHistoryAlone(stored) == JSONStored(<<workoutData>>)

\* saveWorkoutHistory: read the stored list, push, store
saveWorkoutHistory(stored) == JSONStored(Append(stored, workoutData))

\* incrementReps: the updater of setCurrentReps with its side effects
incrementReps ==
  /\ currentReps' = NewReps(currentReps)
  /\ IF TargetMet(NewReps(currentReps), SeenTargetReps)
     THEN /\ isDetecting' = FALSE
          /\ step' = "complete"
          /\ history' = saveWorkoutHistory(history)
     ELSE UNCHANGED <<isDetecting, step, history>>

\* onPoseResults with the joints of the frame pushed onto the ones flagged
\* before and an empty feedback not replacing the one shown
onPoseResultsKeepsForm(f, sig) ==
  IF canvasRef /\ videoRef /\ SeenIsDetecting /\ HasPose(f)
  THEN LET form    == FormOf[exercise.name][f]
           counted == CountOf[exercise.name][f][lastRepState]
       IN  /\ incorrectJoints' = IF form.incorrect = <<>> THEN incorrectJoints ELSE form.incorrect
           /\ formFeedback' = IF form.feedback = "" THEN formFeedback ELSE form.feedback
           /\ lastRepState' = counted.phase
           /\ IF counted.rep
              THEN /\ currentReps < MaxReps
                   /\ incrementReps
                   /\ last' = EventSig("rep", sig)
              ELSE /\ UNCHANGED <<currentReps, isDetecting, step, history>>
                   /\ last' = EventSig("frame", sig)
  ELSE /\ UNCHANGED <<incorrectJoints, formFeedback, lastRepState, currentReps,
                      isDetecting, step, history>>
       /\ last' = Event(IF canvasRef /\ videoRef /\ SeenIsDetecting THEN "noPose" ELSE "dropped")

\* onPoseResults with countReps run first and the form of a frame that fires a
\* rep not evaluated
onPoseResultsRepFirst(f, sig) ==
  IF canvasRef /\ videoRef /\ SeenIsDetecting /\ HasPose(f)
  THEN LET form    == FormOf[exercise.name][f]
           counted == CountOf[exercise.name][f][lastRepState]
       IN  /\ lastRepState' = counted.phase
           /\ IF counted.rep
              THEN /\ currentReps < MaxReps
                   /\ incrementReps
                   /\ UNCHANGED <<incorrectJoints, formFeedback>>
                   /\ last' = EventSig("rep", sig)
              ELSE /\ incorrectJoints' = form.incorrect
                   /\ formFeedback' = form.feedback
                   /\ UNCHANGED <<currentReps, isDetecting, step, history>>
                   /\ last' = EventSig("frame", sig)
  ELSE /\ UNCHANGED <<incorrectJoints, formFeedback, lastRepState, currentReps,
                      isDetecting, step, history>>
       /\ last' = Event(IF canvasRef /\ videoRef /\ SeenIsDetecting THEN "noPose" ELSE "dropped")

\* onPoseResults(results), called by MediaPipe before the send resolves
onPoseResults(f, sig) ==
  IF canvasRef /\ videoRef /\ SeenIsDetecting /\ HasPose(f)
  THEN LET form    == FormOf[exercise.name][f]
           counted == CountOf[exercise.name][f][lastRepState]
       IN  /\ incorrectJoints' = form.incorrect
           /\ formFeedback' = form.feedback
           /\ lastRepState' = counted.phase
           /\ IF counted.rep
              THEN /\ currentReps < MaxReps
                   /\ incrementReps
                   /\ last' = EventSig("rep", sig)
              ELSE /\ UNCHANGED <<currentReps, isDetecting, step, history>>
                   /\ last' = EventSig("frame", sig)
  ELSE /\ UNCHANGED <<incorrectJoints, formFeedback, lastRepState, currentReps,
                      isDetecting, step, history>>
       /\ last' = Event(IF canvasRef /\ videoRef /\ SeenIsDetecting THEN "noPose" ELSE "dropped")

\* a pending send delivers its results and resolves
PoseResults ==
  /\ inFlight # "none"
  /\ \E f \in FrameParams :
       \E sig \in {IF mounted THEN SignalOf[exercise.name][f] ELSE "none"} :
         /\ onPoseResults(f, sig)
         /\ fed' = Feed(sig)
         /\ fed'.cycles <= MaxReps
  /\ AfterSend
  /\ UNCHANGED <<exercise, targetReps, isModelLoading, initError, startPc, stream,
                 videoSrc, pose, cameraUtil, bound, rebind, sessions, ended>>

\* the "Count Rep Manually" button, rendered in the exercise step
handleManualRep ==
  /\ mounted /\ step = "exercise"
  /\ currentReps < MaxReps
  /\ currentReps' = ManualReps(currentReps)
  /\ last' = Event("manual")
  /\ fed' = NotFed
  /\ UNCHANGED <<exercise, step, targetReps, isDetecting, isModelLoading, formFeedback,
                 incorrectJoints, initError, lastRepState, startPc, resources, bound,
                 rebind, history, sessions, ended>>

\* what the refs of the session hold; thrown tells whether an exception left
\* the handler
Refs ==
  [raf |-> raf, stream |-> stream, videoSrc |-> videoSrc, pose |-> pose,
   cameraUtil |-> cameraUtil, thrown |-> FALSE]

\* pose.close() on a pose object: closing a closed one throws
PoseClose(p) == IF p = "null" THEN p ELSE "closed"
PoseCloseThrows(p) == p = "closed"

\* closeResources with pose.close() outside its try block
closeResourcesUnguarded(r, video) ==
  [r EXCEPT !.raf = FALSE,
            !.stream = IF video /\ r.videoSrc THEN "stopped" ELSE @,
            !.pose = PoseClose(@),
            !.cameraUtil = IF @ # "null" THEN "stopped" ELSE @,
            !.thrown = @ \/ PoseCloseThrows(r.pose)]

\* the resource part of handleClose: cancelAnimationFrame, track.stop() on the
\* stream of the <video> element when there is one (video), pose.close() and
\* cameraUtil.stop(), the last two inside try blocks
closeResources(r, video) ==
  [r EXCEPT !.raf = FALSE,
            !.stream = IF video /\ r.videoSrc THEN "stopped" ELSE @,
            !.pose = PoseClose(@),
            !.cameraUtil = IF @ # "null" THEN "stopped" ELSE @]

\* the unmount cleanup: cancelAnimationFrame, pose.close() inside a try block,
\* track.stop() on the stream of the <video> element when there is one
cleanup(r, video) ==
  [r EXCEPT !.raf = FALSE,
            !.pose = PoseClose(@),
            !.stream = IF video /\ r.videoSrc THEN "stopped" ELSE @]

\* ResetSession with the rep count and the feedback left as they were
ResetSessionKeepsReps ==
  /\ step' = "reps"
  /\ targetReps' = <<>>
  /\ UNCHANGED <<currentReps, formFeedback, incorrectJoints>>

\* the setters at the end of handleClose
ResetSession ==
  /\ step' = "reps"
  /\ currentReps' = 0
  /\ targetReps' = <<>>
  /\ formFeedback' = ""
  /\ incorrectJoints' = <<>>

\* handleClose (the dialog's onOpenChange and the Done button), then onClose():
\* Exercise clears selectedExercise, the session unmounts and its cleanup runs
\* with the <video> element already detached.
\* The component state of the unmounted session is shown at the values
\* handleClose set.
handleClose ==
  /\ mounted
  /\ startPc # "detectPose"
  /\ isDetecting' = FALSE
  /\ \E r \in {cleanup(closeResources(Refs, videoRef), FALSE)} :
       /\ raf' = r.raf /\ stream' = r.stream
       /\ pose' = r.pose /\ cameraUtil' = r.cameraUtil
  /\ ResetSession
  /\ exercise' = NoExercise
  /\ last' = Event("close")
  /\ fed' = NotFed
  /\ ended' = lastRepState
  /\ UNCHANGED <<isModelLoading, initError, lastRepState, startPc, videoSrc, inFlight,
                 bound, rebind, history, sessions>>

Next ==
  \/ Mount
  \/ SetTargetReps
  \/ HandleStartExercise
  \/ GetUserMediaResolves
  \/ GetUserMediaRejects
  \/ OnLoadedMetadata
  \/ ImportResolves
  \/ ImportFails
  \/ CameraStartResolves
  \/ CameraStartFails
  \/ CameraFrame
  \/ detectPose
  \/ SendFails
  \/ PoseResults
  \/ handleManualRep
  \/ handleClose

\* the program: the pose callbacks read the render that registered them
Spec == Init /\ [][Next]_vars
\* the handlers applied to the latest render
SpecLive == InitLive /\ [][Next]_vars

(***************************************************************************)
(* Properties                                                              *)
(***************************************************************************)
FrameOps == {"rep", "frame", "noPose", "dropped"}
AnalysedOps == {"rep", "frame"}
Target == parseInt(IF targetReps = <<>> THEN <<"0">> ELSE targetReps)
Reached == ~Target.nan /\ currentReps >= Target.val
Below == ~Target.nan /\ currentReps < Target.val
IsSquat == mounted /\ SignalKind(exercise.name) = "squat"

\* C1: a frame step adds exactly 1 to currentReps when it takes the phase
\* from down to up, and leaves currentReps alone when it takes the phase from
\* up to down or leaves the phase as it was; for every exercise of the catalog.
C1_RepOnDownUp ==
  last.op \in FrameOps =>
    IF last.phase = "down" /\ lastRepState = "up"
    THEN currentReps = last.reps + 1
    ELSE currentReps = last.reps

\* a lunge frame took the phase from down to up and counted one rep
C1_Witness ==
  /\ last.op = "rep" /\ last.phase = "down" /\ lastRepState = "up"
  /\ currentReps = last.reps + 1
  /\ SignalKind(exercise.name) = "lunge"

\* C2: a squat session started from (up, 0) with target N that was fed k <= N
\* full cycles, every landmark visible and no manual rep, has currentReps = k.
C2_CyclesCounted ==
  (IsSquat /\ step \in {"exercise", "complete"} /\ fed.clean
     /\ ~Target.nan /\ fed.cycles <= Target.val)
    => currentReps = fed.cycles

\* C3: in each threshold pair down is strictly below up (80 < 120, 90 < 160,
\* 70 < 150, 85 < 150), and an analysed frame whose signal lies in the closed
\* band between them changes neither the phase nor currentReps.
C3_BandIsInert ==
  /\ thresholds.squat = [hipKneeDown |-> 80, hipKneeUp |-> 120]
  /\ thresholds.pushup = [elbowDown |-> Deg(90), elbowUp |-> Deg(160)]
  /\ thresholds.pullup = [elbowDown |-> Deg(70), elbowUp |-> Deg(150)]
  /\ thresholds.lunge = [kneeDown |-> Deg(85), kneeUp |-> Deg(150)]
  /\ 80 < 120 /\ 90 < 160 /\ 70 < 150 /\ 85 < 150
  /\ (last.op \in AnalysedOps /\ last.sig = "band")
       => (lastRepState = last.phase /\ currentReps = last.reps)

\* an in-band frame was analysed while the phase was down, after a rep
C3_Witness ==
  /\ last.op = "frame" /\ last.sig = "band"
  /\ last.phase = "down" /\ lastRepState = "down"
  /\ currentReps >= 1

\* C4: an automatic rep that brings currentReps to the target or beyond ends
\* detection, takes the step from exercise to complete and appends one
\* summary, all in that step; one that stays below the target leaves the step
\* at exercise and appends nothing.
C4_AutoRepCompletes ==
  last.op = "rep" =>
    /\ Reached => /\ ~isDetecting
                  /\ last.step = "exercise" /\ step = "complete"
                  /\ Len(history) = last.saved + 1
    /\ Below => /\ step = "exercise"
                /\ Len(history) = last.saved

\* the automatic rep that reached the target completed the session
C4_Witness ==
  /\ last.op = "rep" /\ Reached /\ currentReps = last.reps + 1
  /\ step = "complete" /\ ~isDetecting /\ Len(history) = last.saved + 1

\* C5: in a session, however frames and manual reps interleave, at most one
\* summary is saved, and once currentReps has reached the target the session
\* is complete and exactly one summary has been saved.
C5_CompleteOnce ==
  (mounted /\ sessions = 1) =>
    /\ Len(history) <= 1
    /\ step = "complete" => Len(history) = 1
    /\ (step \in {"exercise", "complete"} /\ Reached)
         => (step = "complete" /\ Len(history) = 1)

\* C6: a manual rep that brings currentReps to the target or beyond completes
\* the session and saves one summary, as an automatic rep does.
C6_ManualRepCompletes ==
  (last.op = "manual" /\ Reached) =>
    (step = "complete" /\ Len(history) = last.saved + 1)

\* C7: handleManualRep is offered in the exercise step only, adds exactly 1 to
\* currentReps whatever the phase and whether or not a frame is in flight,
\* and leaves the phase, targetReps, the feedback and the joints as they were.
C7_ManualRep ==
  [][last'.op = "manual" =>
       /\ step = "exercise"
       /\ currentReps' = currentReps + 1
       /\ UNCHANGED <<lastRepState, targetReps, formFeedback, incorrectJoints>>]_vars

\* a manual rep was counted in the down phase with a frame in flight
C7_Witness ==
  /\ last.op = "manual" /\ currentReps = last.reps + 1
  /\ lastRepState = "down" /\ inFlight # "none"

\* C8: the summary saved on completion has reps = the currentReps that met the
\* target and targetReps = the target; after three full squat cycles with
\* target 3 the one record has reps 3 and targetReps 3.
C8_SummaryCarriesReps ==
  /\ (mounted /\ step = "complete") =>
       /\ history # <<>>
       /\ history[Len(history)].reps = currentReps
       /\ history[Len(history)].targetReps = Target
  /\ (IsSquat /\ sessions = 1 /\ fed.clean /\ fed.cycles = 3 /\ Target = Num(3)) =>
       /\ Len(history) = 1
       /\ history[1].reps = 3 /\ history[1].targetReps = Num(3)

\* C9: no step lowers currentReps, except handleClose, which sets it to 0.
C9_RepsNeverDecrease ==
  [][/\ last'.op # "close" => currentReps' >= currentReps
     /\ last'.op = "close" => currentReps' = 0]_vars

\* a session that went through complete with reps counted was closed
C9_Witness ==
  /\ last.op = "close" /\ last.step = "complete" /\ last.reps >= 3
  /\ currentReps = 0

\* C10: a session enters the exercise step with the phase up, also when the
\* session before it was closed while the phase was down.
C10_StartsUp ==
  /\ (mounted /\ step = "reps") => lastRepState = "up"
  /\ last.op = "start" => lastRepState = "up"

\* a second session was started after the first ended in the down phase
C10_Witness ==
  /\ last.op = "start" /\ step = "exercise" /\ sessions = 2
  /\ ended = "down" /\ lastRepState = "up"

\* a target that is empty, zero or negative (no other non-number can be held
\* by the numeric input)
BadTarget(t) == t = <<>> \/ t = <<"0">> \/ Head(t) = "-"

\* C11: handleStartExercise with an empty, non-numeric, zero or negative
\* target changes nothing: the step stays reps, isModelLoading stays false,
\* and neither the camera nor the pose model is requested.
C11_InvalidTargetRejected ==
  (last.op \in {"start", "invalid"} /\ BadTarget(targetReps)) =>
    /\ last.op = "invalid"
    /\ step = "reps" /\ ~isModelLoading
    /\ startPc = "idle" /\ stream = "none" /\ pose = "null"

\* C12: when the camera is denied or unavailable at startup an error is
\* raised and the session is back in collectingTarget (step reps), with no
\* frame loop started.
C12_CameraDeniedBackToTarget ==
  (mounted /\ last.op = "cameraError") =>
    /\ initError = "camera" /\ ~isModelLoading
    /\ step = "reps"
    /\ ~raf /\ inFlight = "none" /\ cameraUtil = "null" /\ pose = "null"

\* the next frame is on its way: the next detectPose is scheduled and will
\* send, or the camera helper is running and will call onFrame
NextFrameRequested ==
  \/ raf /\ videoRef /\ pose = "open" /\ SeenIsDetecting
  \/ cameraUtil = "started" /\ pose = "open"

\* C13: in a running session that was not closed, a frame whose estimation
\* throws leaves currentReps, the phase and the step as they were, and the
\* next frame is still requested.
C13_ErrorFrameSkipped ==
  (last.op = "sendError" /\ mounted /\ step = "exercise") =>
    /\ currentReps = last.reps /\ lastRepState = last.phase /\ step = last.step
    /\ NextFrameRequested

\* an estimation of the manual loop failed after a rep had been counted, in
\* the down phase
C13_Witness ==
  /\ last.op = "sendError" /\ mounted /\ step = "exercise"
  /\ raf /\ cameraUtil # "started"
  /\ currentReps >= 1 /\ lastRepState = "down"

\* C14: handleClose, from any step and also through the Done button of the
\* complete step, leaves the session at its defaults: the target step, no reps,
\* an empty target, not detecting, no feedback and no flagged joints
C14_CloseResets ==
  last.op = "close" =>
    /\ step = "reps" /\ currentReps = 0 /\ targetReps = <<>>
    /\ ~isDetecting /\ formFeedback = "" /\ incorrectJoints = <<>>

C14_Witness ==
  /\ last.op = "close" /\ last.step = "complete" /\ last.reps >= 1
  /\ step = "reps" /\ currentReps = 0

\* C15: a close from any state in which the camera was acquired, the complete
\* step included, leaves every camera track stopped and the pose model
\* released, and they stay so while no session is open
C15_CloseReleases ==
  /\ last.op = "close" => (stream # "live" /\ pose # "open")
  /\ (~mounted /\ stream = "stopped") => pose # "open"

\* C16: cancellation is idempotent: from every state of an open session,
\* handleClose run a second time (with the <video> element as it was or
\* already gone), or followed by the unmount cleanup, lets no exception out and
\* leaves the resources exactly as one handleClose left them
C16_CloseIdempotent ==
  mounted =>
    \A v \in {FALSE, videoRef} :
      /\ closeResources(closeResources(Refs, videoRef), v)
           = closeResources(Refs, videoRef)
      /\ cleanup(closeResources(Refs, videoRef), v) = closeResources(Refs, videoRef)
      /\ ~closeResources(Refs, videoRef).thrown

C16_Witness ==
  /\ last.op = "close" /\ last.step = "exercise"
  /\ pose = "closed" /\ stream = "stopped" /\ cameraUtil = "stopped"
  /\ Refs = closeResources(Refs, FALSE)

\* a closed session takes a step that sends no frame for estimation and leaves
\* the rep count, the phase, the feedback and the flagged joints as they are
ClosedStepInert ==
  (~mounted /\ ~mounted') =>
    /\ inFlight' \in {"none", inFlight}
    /\ UNCHANGED <<currentReps, lastRepState, formFeedback, incorrectJoints>>

\* C17: once handleClose has run no frame is requested any more and no frame
\* result changes the session: a frame in flight at the close resolves without
\* a new frame being sent, and its result leaves currentReps, the phase, the
\* form feedback and incorrectJoints unchanged
C17_NoFramesAfterClose ==
  /\ [][ClosedStepInert]_vars
  /\ [](~mounted => ~NextFrameRequested)

C17_Witness ==
  /\ ~mounted /\ last.op = "dropped" /\ inFlight = "none" /\ raf
  /\ pose = "closed" /\ stream = "stopped"

\* the fallback was taken (no helper, or its start failed), detectPose has been
\* called and the session is still in its exercise step
FallbackTaken ==
  /\ mounted /\ step = "exercise" /\ pose = "open"
  /\ startPc = "done" /\ cameraUtil \in {"null", "failed"}

\* C18: one frame at most is in analysis and frames have one producer: the
\* manual loop asks for the next frame only when the current send has resolved,
\* the camera helper and the manual loop are never both active, and when the
\* helper is absent or fails to start the manual loop is the one that runs
C18_SingleProducer ==
  /\ ~(raf /\ inFlight # "none")
  /\ cameraUtil = "started" => (~raf /\ inFlight # "manual" /\ startPc # "detectPose")
  /\ FallbackTaken => (raf \/ inFlight = "manual")

\* C19: the stored workout history is append-only: every step either leaves
\* the stored list as it is or keeps the earlier summaries, unchanged and in
\* their order, and adds exactly one summary at the end
C19_HistoryAppendOnly ==
  [][\/ history' = history
     \/ /\ Len(history') = Len(history) + 1
        /\ SubSeq(history', 1, Len(history)) = history]_vars

C19_Witness ==
  /\ Len(history) = 2 /\ last.op = "rep" /\ last.saved = 1
  /\ history[1] # history[2]

\* points of the pixel grid of the landmarks, and a keypoint that was not found
GridPoints ==
  {[defined |-> TRUE, x |-> i * (VideoWidth \div 16), y |-> j * (VideoHeight \div 12)] :
     i \in 0..MaxGrid, j \in 0..MaxGrid}
AnyPoints == GridPoints \cup {Undefined}

\* getAngle on every three points, present or not
AngleLaw ==
  \A a \in AnyPoints, b \in AnyPoints, c \in AnyPoints :
    /\ getAngle(a, b, c) \in 0..Deg(180)
    /\ getAngle(a, b, c) = getAngle(c, b, a)
    /\ (Undefined \in {a, b, c}) => getAngle(a, b, c) = 0

\* C20: getAngle(a, b, c) lies between 0 and 180 degrees for three present
\* points, is the same with a and c swapped, and is 0 when a point is absent;
\* stated for the getAngle that a session uses on its frames
C20_AngleLaw == last.op \in {"frame", "rep"} => AngleLaw

\* a session has analysed a frame with getAngle, which on the grid gives a
\* straight, a right and a reflex-folded angle
C20_Witness ==
  /\ last.op \in {"frame", "rep"} /\ last.sig \in {"below", "above", "band"}
  /\ \E a \in GridPoints, b \in GridPoints, c \in GridPoints :
       /\ getAngle(a, b, c) = Deg(180)
       /\ getAngle(a, c, b) = 0
  /\ \E a \in GridPoints, b \in GridPoints, c \in GridPoints :
       /\ getAngle(a, b, c) = Deg(135)
       /\ Abs(atan2(c.y - b.y, c.x - b.x) - atan2(a.y - b.y, a.x - b.x)) = Deg(225)

\* the step analyses the frame f: the feedback and the flagged joints are those
\* of checkForm on f, and the phase and the rep are those of countReps on f
AnalysedAs(f) ==
  /\ HasPose(f)
  /\ formFeedback' = FormOf[exercise.name][f].feedback
  /\ incorrectJoints' = FormOf[exercise.name][f].incorrect
  /\ lastRepState' = CountOf[exercise.name][f][lastRepState].phase
  /\ (currentReps' = currentReps + 1) = CountOf[exercise.name][f][lastRepState].rep

\* C21: on every analysed frame checkForm and countReps work on the landmarks
\* of that one frame; when the frame fires a rep, the feedback and the flagged
\* joints set in the step are those of the same frame
C21_FormAndRepOfOneFrame ==
  [][last'.op \in AnalysedOps => \E f \in FrameParams : AnalysedAs(f)]_vars

C21_Witness ==
  /\ last.op = "rep" /\ currentReps = last.reps + 1
  /\ formFeedback # "" /\ incorrectJoints # <<>>

\* what checkForm gives for the exercise on the frames of one signal class
FormsOf(name, sig) ==
  {FormOf[name][f] : f \in {g \in FrameParams : HasPose(g) /\ SignalOf[name][g] = sig}}

\* C22: checkForm depends on the frame and the exercise name only: whatever the
\* phase, the rep count, and the feedback and joints shown before, an analysed
\* frame leaves exactly checkForm's joints and feedback for that frame, both
\* empty when no check fires; a squat knee angle of exactly 70 fires no check
C22_FormIsOfTheFrameOnly ==
  /\ [][last'.op \in AnalysedOps =>
          [incorrect |-> incorrectJoints', feedback |-> formFeedback']
            \in FormsOf(exercise.name, last'.sig)]_vars
  /\ [](~kneeTooDeep(Deg(70)) /\ ~kneeTooShallow(Deg(70)))

C22_Witness ==
  /\ last.op = "frame" /\ mounted /\ last.reps >= 1 /\ last.sig # "none"
  /\ formFeedback = "" /\ incorrectJoints = <<>>

Joints(seq) == {seq[i] : i \in 1..Len(seq)}
Fired(name, f) == SelectSeq(ChecksOf(name, KeypointsOf[f]), LAMBDA c : c.fires)

\* one pass of checkForm on every frame of every exercise: the feedback is that
\* of the last check that fired, the joints are those of all checks that fired
LastMatchWins ==
  \A n \in Names, f \in FrameParams :
    /\ FormOf[n][f].feedback
         = IF Fired(n, f) = <<>> THEN "" ELSE Fired(n, f)[Len(Fired(n, f))].feedback
    /\ Joints(FormOf[n][f].incorrect)
         = UNION {Joints(Fired(n, f)[i].joints) : i \in 1..Len(Fired(n, f))}

\* C23: in one checkForm pass the feedback is the one of the last check that
\* fired, and incorrectJoints holds the joints of every check that fired,
\* those of checks whose feedback was overwritten included
C23_LastMatchWins == last.op \in AnalysedOps => LastMatchWins

\* a squat frame: the knee width check fired last, the left hip was flagged by
\* an earlier check
C23_Witness ==
  /\ last.op \in AnalysedOps /\ IsSquat
  /\ formFeedback = "Push knees outward - hip width"
  /\ "left_hip" \in Joints(incorrectJoints) /\ "right_knee" \in Joints(incorrectJoints)

Keywords ==
  { <<"s","q","u","a","t">>, <<"p","u","s","h">>, <<"p","u","l","l">>,
    <<"l","u","n","g","e">>, <<"p","l","a","n","k">>, <<"j","a","c","k">>,
    <<"j","u","m","p">> }
Unmatched(name) == \A w \in Keywords : ~includes(toLowerCase(name), w)

\* the same name written in lower case, in upper case and in mixed case
PullUpsSpellings ==
  { <<"p","u","l","l"," ","u","p","s">>, <<"P","U","L","L"," ","U","P","S">>,
    <<"P","u","l","l"," ","U","p","s">> }
\* checkForm and countReps on every frame for each spelling
SpelledForm ==
  [a \in PullUpsSpellings |-> [f \in FrameParams |-> checkForm(a, KeypointsOf[f])]]
SpelledCount ==
  [a \in PullUpsSpellings |-> [f \in FrameParams |->
     [ph \in Phases |-> countReps(a, KeypointsOf[f], ph)]]]
SameInEveryCase ==
  \A a \in PullUpsSpellings, b \in PullUpsSpellings :
    SpelledForm[a] = SpelledForm[b] /\ SpelledCount[a] = SpelledCount[b] /\ ~Unmatched(a)

\* C24: for an exercise whose name holds none of the keywords every analysed
\* frame leaves incorrectJoints and the feedback empty and changes neither the
\* phase nor currentReps; the letter case of the name does not matter
C24_UnmatchedExerciseIsInert ==
  /\ [][(last'.op \in AnalysedOps /\ Unmatched(exercise.name)) =>
          /\ formFeedback' = "" /\ incorrectJoints' = <<>>
          /\ lastRepState' = lastRepState /\ currentReps' = currentReps]_vars
  /\ [](last.op \in AnalysedOps => SameInEveryCase)

C24_Witness ==
  /\ last.op = "frame" /\ mounted /\ Unmatched(exercise.name)
  /\ last.reps >= 1 /\ currentReps = last.reps /\ last.phase = lastRepState
  /\ formFeedback = "" /\ incorrectJoints = <<>>

\* the landmarks of a frame that are present with a visibility above 0.4, with
\* their pixel coordinates
UsablePart(f) ==
  [n \in {m \in DOMAIN KeypointsOf[f] : KeypointsOf[f][m].visibility > VisMin} |->
     <<KeypointsOf[f][n].x, KeypointsOf[f][n].y>>]
PoseFrames == {f \in FrameParams : HasPose(f)}
NoForm == [incorrect |-> <<>>, feedback |-> ""]

\* frames that agree on their usable landmarks get the same form result and
\* the same rep decision: no check reads an unusable landmark
ReadsOnlyUsable ==
  \A f \in PoseFrames, g \in PoseFrames :
    UsablePart(f) = UsablePart(g) =>
      \A n \in Names : FormOf[n][f] = FormOf[n][g] /\ CountOf[n][f] = CountOf[n][g]

\* without the landmarks of the rep signal the phase stays and no rep fires;
\* without any usable landmark the form result is empty as well
UnusableIsInert ==
  \A n \in Names, f \in PoseFrames :
    /\ SignalOf[n][f] = "none" =>
         \A ph \in Phases : CountOf[n][f][ph] = [phase |-> ph, rep |-> FALSE]
    /\ DOMAIN UsablePart(f) = {} => FormOf[n][f] = NoForm

\* C25: a frame whose rep-signal landmarks are missing or at or below the
\* visibility threshold leaves the phase and currentReps unchanged; a form
\* check fires only on landmarks that are present and above the threshold; a
\* frame with no usable landmark gives empty joints and feedback
C25_UnusableLandmarksAreSkipped ==
  /\ [][(last'.op \in AnalysedOps /\ last'.sig = "none") =>
          lastRepState' = lastRepState /\ currentReps' = currentReps]_vars
  /\ [](last.op \in AnalysedOps => (ReadsOnlyUsable /\ UnusableIsInert))

C25_Witness ==
  /\ last.op = "frame" /\ last.sig = "none" /\ mounted
  /\ SignalKind(exercise.name) \in {"pushup", "pullup", "lunge"}
  /\ last.phase = "down" /\ lastRepState = "down"
  /\ last.reps >= 1 /\ currentReps = last.reps
  /\ formFeedback # "" /\ initError = "null"

\* the name matches plank and none of the rep-counted keywords
PlankOnly(name) ==
  /\ includes(toLowerCase(name), <<"p","l","a","n","k">>)
  /\ SignalKind(name) = "none"

\* C26: in a plank session no frame changes currentReps or the rep phase; a
\* frame changes the form feedback and the incorrect joints only
C26_PlankCountsNothing ==
  /\ [][(last'.op \in FrameOps /\ PlankOnly(exercise.name)) =>
          /\ last'.op # "rep"
          /\ currentReps' = currentReps /\ lastRepState' = lastRepState
          /\ step' = step /\ targetReps' = targetReps /\ isDetecting' = isDetecting]_vars
  /\ []((mounted /\ PlankOnly(exercise.name)) => lastRepState = "up")

C26_Witness ==
  /\ last.op = "frame" /\ mounted /\ PlankOnly(exercise.name)
  /\ formFeedback = "Hips sagging - raise them up"
  /\ "left_hip" \in Joints(incorrectJoints)
  /\ last.reps >= 1 /\ currentReps = last.reps /\ lastRepState = "up"

IsJack(name) == SignalKind(name) = "jack"

\* C27: in a jumping-jack session a rep fires exactly on a frame with arms
\* raised and legs spread while the phase is down, the phase returns to down
\* exactly on a frame with arms not raised and legs not spread while the phase
\* is up, and a frame with exactly one of the two changes neither
C27_JackNeedsBoth ==
  [][(last'.op \in AnalysedOps /\ IsJack(exercise.name)) =>
       /\ (last'.op = "rep") = (last'.sig = "both" /\ lastRepState = "down")
       /\ last'.op = "rep" => (lastRepState' = "up" /\ currentReps' = currentReps + 1)
       /\ (lastRepState = "up" /\ lastRepState' = "down") = (last'.sig = "neither" /\ lastRepState = "up")
       /\ last'.op = "frame" => currentReps' = currentReps
       /\ last'.sig \in {"one", "none"} =>
            (lastRepState' = lastRepState /\ currentReps' = currentReps)
       /\ lastRepState' # lastRepState =>
            (last'.op = "rep" \/ (lastRepState = "up" /\ last'.sig = "neither"))]_vars

C27_Witness ==
  /\ last.op = "rep" /\ mounted /\ IsJack(exercise.name)
  /\ last.sig = "both" /\ last.phase = "down" /\ lastRepState = "up"
  /\ currentReps = last.reps + 1

\* C28: the session is in complete only with currentReps at or above a
\* positive integer targetReps and with detection stopped, and complete is
\* entered from the exercise step only
C28_CompleteMeansTargetReached ==
  /\ [](step = "complete" =>
          /\ ~Target.nan /\ Target.val >= 1
          /\ currentReps >= Target.val
          /\ ~isDetecting)
  /\ [][step' = "complete" /\ step # "complete" =>
          /\ step = "exercise" /\ last'.op = "rep"
          /\ currentReps' = currentReps + 1
          /\ ~isDetecting']_vars

C28_Witness ==
  /\ step = "complete" /\ mounted /\ last.op = "rep" /\ last.step = "exercise"
  /\ Target.val = 3 /\ currentReps = 3 /\ ~isDetecting

\* C29: while the session is in collectingTarget no camera stream is live, no
\* pose model is open, no frame source runs and detection is off, also when
\* the session was closed while the camera request or the model import was
\* pending and that step resolves afterwards
C29_IdleHoldsNothing ==
  step = "reps" =>
    /\ stream # "live"
    /\ pose # "open"
    /\ cameraUtil \notin {"starting", "started"}
    /\ ~raf /\ inFlight = "none"
    /\ ~isDetecting

\* the plank body-line check on a shoulder, a hip and an ankle that are all
\* clearly visible
SeenPoints ==
  {[defined |-> TRUE, x |-> p.x, y |-> p.y, visibility |-> 90] : p \in GridPoints}
BodyLine(shoulder, hip, ankle) ==
  PlankChecks([left_shoulder |-> shoulder, left_hip |-> hip, left_ankle |-> ankle])
PikedFrame == <<TRUE, 8, "lying", "piked", "all">>

\* wherever the three landmarks are, the hips-too-high check does not fire and
\* the hips-sagging check fires exactly below 165 degrees; the frame with the
\* hips above the body line is reported as sagging
PikeUnreachable ==
  /\ \A a \in SeenPoints, b \in SeenPoints, c \in SeenPoints :
       /\ ~BodyLine(a, b, c)[2].fires
       /\ BodyLine(a, b, c)[1].fires = (getAngle(a, b, c) < Deg(165))
       /\ ~(getAngle(a, b, c) > Deg(195))
  /\ \A n \in Names, f \in PoseFrames :
       FormOf[n][f].feedback # "Hips too high - lower them down"
  /\ \A n \in {m \in Names : PlankOnly(m)} :
       FormOf[n][PikedFrame].feedback = "Hips sagging - raise them up"

\* C30: the plank body-line angle comes from getAngle and stays within 0..180,
\* so the branch above 195 is never taken: no frame gives the hips-too-high
\* feedback, and the body-line check gives hips-sagging (below 165) or nothing
C30_PikeBranchUnreachable ==
  /\ formFeedback # "Hips too high - lower them down"
  /\ last.op \in AnalysedOps => PikeUnreachable

C30_Witness ==
  /\ last.op = "frame" /\ mounted /\ PlankOnly(exercise.name)
  /\ last.reps = 0 /\ currentReps = 0
  /\ formFeedback = "Hips sagging - raise them up"
  /\ incorrectJoints = <<"left_hip", "left_shoulder", "left_ankle">>

=============================================================================
